---------------------------- MODULE Spec2Model ----------------------------
(***************************************************************************)
(* Verification model of gc888/iis: the token bucket of the storage        *)
(* driver (src/action/util.go), the social-graph edge operations and the   *)
(* chain walk of the data access layer (src/unnamed/part_000).             *)
(***************************************************************************)
EXTENDS Integers, Sequences, FiniteSets, TLC

(***************************************************************************)
(* Bounds of the model.                                                    *)
(***************************************************************************)
NumCallers == 2
MaxNow == 3
\* Consume is not entered any more once capacity has sunk below -MaxDebt
MaxDebt == 3
\* the calls of FollowUser and BlockUser one behaviour makes
MaxCalls == 2
\* the last second the clock of the data access layer reaches
MaxUnix == 1
\* the goroutines with update-user requests one behaviour starts
MaxRequests == 2
\* the nodes inserted into the chain that is walked
MaxChain == 3
\* the tenths of a second that pass under one walk
MaxElapsed == 3
\* the update-node requests sent to the chain that is walked
MaxUpdates == 1
\* the loads of a walk that are kept in its record
MaxVisited == 4
\* the nodes of a chain that older versions or a damaged store left behind
MaxLegacy == 2
\* the migration goroutines GetUser starts in one behaviour
MaxMigrations == 2

(***************************************************************************)
(* Program constants.                                                      *)
(***************************************************************************)
\* util.go:270 divides ms * speed by 1000; util.go:284 multiplies sec by 1000
MsPerSec == 1000

VARIABLES
    \* ---- TokenBucket (src/action/util.go:238-245)
    speed, capacity, maxCapacity, timeout, lastConsume, mu,
    \* ---- the wall clock, in units of TickMs milliseconds since construction
    now,
    \* ---- one record per goroutine calling Consume
    caller,
    \* ---- the latest return of Consume: who, with which n, which value
    ret,
    \* ---- the sum of n over the calls of Consume that have returned true
    granted,
    \* ---- the key-value store behind m.db: node key -> stored record
    db,
    \* ---- the user records: id -> counters
    users,
    \* ---- the calls of FollowUser / BlockUser, in the order they were made
    call,
    \* ---- the goroutine FollowUser's deferred function starts, per call
    bg,
    \* ---- the executor's lock per user id: the goroutine whose request runs
    ulock,
    \* ---- what has been done to the store the walk reads
    chainlog,
    \* ---- the GetFollowingList call in progress or returned
    walk

bucketVars == <<speed, capacity, maxCapacity, timeout, lastConsume, mu, caller, ret, granted>>
graphVars == <<db, users, call, bg>>

execVars == <<ulock>>
walkVars == <<chainlog, walk>>
extraVars == <<execVars, walkVars>>

vars == <<bucketVars, now, graphVars, extraVars>>

(***************************************************************************)
(* Go's integer division truncates toward zero; TLA+'s \div floors.        *)
(***************************************************************************)
TruncDiv(a, b) == IF a >= 0 THEN a \div b ELSE -((-a) \div b)

Min(a, b) == IF a <= b THEN a ELSE b

(***************************************************************************)
(* TokenBucket                                                             *)
(***************************************************************************)
Callers == 1..NumCallers
\* one clock step of the bucket's clock, in milliseconds: half a second
TickMs == MsPerSec \div 2
\* the configurations "<speed>x<wait>/<max>" NewTokenBucket is given
Speeds == {0, 3}
Waits == {0, 1}
Maxes == {0, 2}
\* the arguments of Consume
Ns == {0, 1, 3}

NoRet == [caller |-> 0, n |-> 0, value |-> "none", slept |-> FALSE]

IdleCaller == [pc |-> "idle", n |-> 0, wakeAt |-> 0]

Return(p, v, slept) == [caller |-> p, n |-> caller[p].n, value |-> v, slept |-> slept]

\* NewTokenBucket: capacity starts at 0, lastConsume at the construction time
NewTokenBucket ==
    /\ speed \in Speeds
    /\ maxCapacity \in Maxes
    /\ timeout \in {w * MsPerSec : w \in Waits}
    /\ capacity = 0
    /\ lastConsume = 0
    /\ mu = 0

\* ms := now.Sub(tb.lastConsume).Nanoseconds() / 1e6
\* tb.capacity += ms * tb.speed / 1000, then capped at maxCapacity
Refill(cap, clock, last) ==
    Min(cap + TruncDiv((clock - last) * speed, MsPerSec), maxCapacity)

\* a sleepTime computed in seconds and compared with a timeout in milliseconds
SleepTimeInSeconds(n, cap) == TruncDiv(n - cap, speed)

\* sec := float64(n-tb.capacity) / float64(tb.speed)
\* sleepTime := time.Duration(sec*1000) * time.Millisecond
\* (on the values of this model the float64 product, truncated, equals the
\* truncated integer quotient)
SleepTime(n, cap) == TruncDiv((n - cap) * MsPerSec, speed)

\* a mutex that stays with the caller through its sleep
MuKeptAsleep(p) == p

\* line 293: tb.mu.Unlock() before time.Sleep
MuAsleep(p) == 0

\* Consume, line 263: speed == 0 returns true without touching the bucket
ConsumeUnlimited(p, n) ==
    /\ caller[p].pc = "idle"
    /\ speed = 0
    /\ ret' = [caller |-> p, n |-> n, value |-> "true", slept |-> FALSE]
    /\ UNCHANGED <<speed, capacity, maxCapacity, timeout, lastConsume, mu, now, caller, granted, graphVars, extraVars>>

\* Consume entered with speed > 0, lines 263-267: the caller passes
\* tb.mu.Lock(), which blocks until the mutex is free
ConsumeLock(p, n) ==
    /\ caller[p].pc = "idle"
    /\ speed # 0
    /\ capacity >= -MaxDebt
    /\ mu = 0
    /\ mu' = p
    /\ caller' = [caller EXCEPT ![p] = [pc |-> "locked", n |-> n, wakeAt |-> 0]]
    /\ UNCHANGED <<speed, capacity, maxCapacity, timeout, lastConsume, now, ret, granted, graphVars, extraVars>>

\* lines 268-293: the bookkeeping under the mutex, up to the Unlock of the
\* path taken
ConsumeBookkeep(p) ==
    /\ caller[p].pc = "locked"
    /\ mu = p
    /\ LET n == caller[p].n
           clock == now * TickMs
           refilled == Refill(capacity, clock, lastConsume)
           sleepTime == SleepTime(n, refilled)
       IN IF n <= refilled
          THEN /\ lastConsume' = clock
               /\ capacity' = refilled - n
               /\ mu' = 0
               /\ caller' = [caller EXCEPT ![p] = IdleCaller]
               /\ ret' = Return(p, "true", FALSE)
               /\ granted' = granted + n
          ELSE IF sleepTime > timeout
          THEN /\ capacity' = refilled
               /\ lastConsume' = lastConsume
               /\ mu' = 0
               /\ caller' = [caller EXCEPT ![p] = IdleCaller]
               /\ ret' = Return(p, "false", FALSE)
               /\ granted' = granted
          ELSE /\ capacity' = 0
               /\ lastConsume' = clock + sleepTime
               /\ mu' = MuAsleep(p)
               /\ caller' = [caller EXCEPT ![p].pc = "sleeping",
                                           ![p].wakeAt = clock + sleepTime]
               /\ ret' = ret
               /\ granted' = granted
    /\ UNCHANGED <<speed, maxCapacity, timeout, now, graphVars, extraVars>>

\* lines 295-296: time.Sleep(sleepTime) is over, return true
ConsumeWake(p) ==
    /\ caller[p].pc = "sleeping"
    /\ now * TickMs >= caller[p].wakeAt
    /\ caller' = [caller EXCEPT ![p] = IdleCaller]
    /\ ret' = Return(p, "true", TRUE)
    /\ granted' = granted + caller[p].n
    /\ UNCHANGED <<speed, capacity, maxCapacity, timeout, lastConsume, mu, now, graphVars, extraVars>>

\* the wall clock advances
Tick ==
    /\ now < MaxNow
    /\ now' = now + 1
    /\ UNCHANGED <<speed, capacity, maxCapacity, timeout, lastConsume, mu, caller, ret, granted, graphVars, extraVars>>

InitBucket ==
    /\ NewTokenBucket
    /\ now = 0
    /\ caller = [p \in Callers |-> IdleCaller]
    /\ ret = NoRet
    /\ granted = 0
    /\ db = <<>> /\ users = <<>> /\ call = <<>> /\ bg = <<>>
    /\ ulock = <<>> /\ chainlog = <<>> /\ walk = <<>>

NextBucket ==
    \/ \E p \in Callers, n \in Ns : ConsumeUnlimited(p, n)
    \/ \E p \in Callers, n \in Ns : ConsumeLock(p, n)
    \/ \E p \in Callers : ConsumeBookkeep(p)
    \/ \E p \in Callers : ConsumeWake(p)
    \/ Tick

SpecBucket == InitBucket /\ [][NextBucket]_vars

(***************************************************************************)
(* The store and the command executor.  Do, GetArticle, the request types  *)
(* and the id constructors are code of the repository that src/ does not   *)
(* hold; they are modelled from sections 3, 4.3, 4.5 and 6 of the          *)
(* specification.                                                          *)
(***************************************************************************)
Users == {"a", "b"}
\* a tag can be followed too (part_000:176)
Tags == {"#t"}
Targets == Users \cup Tags

\* node keys: a pure function of the relation and the pair; keys of chain
\* members carry the "u/" prefix the walk tests for
makeFollowID(from, to) == <<"u/", from, "follow", to>>
makeFollowedID(from, to) == <<"u/", from, "followed", to>>
makeBlockID(from, to) == <<"u/", from, "block", to>>
\* ik.NewID(kind, id).String(): the key of a chain's root record
NewID(kind, id) == <<kind, id>>
\* the empty string, as a key and as an extras value
Empty == <<>>

\* model.Article, the fields the core uses
Article(cmd, extras, createTime) ==
    [Cmd |-> cmd, Extras |-> extras, NextID |-> Empty, CreateTime |-> createTime]

\* GetArticle(id) finds a record
Existed(d, id) == id \in DOMAIN d

\* a.Extras[key], "" when the key is absent
ExtraOf(a, key) == IF key \in DOMAIN a.Extras THEN a.Extras[key] ELSE Empty

\* Do(DoUpdateArticle, "ID", id, "SetExtraKey", key, "SetExtraValue", value):
\* not existed when the node is absent, else the upsert, answering the old value
UpdateArticle(d, id, key, value) ==
    IF ~Existed(d, id)
    THEN [err |-> "not existed", old |-> Empty, db |-> d]
    ELSE [err |-> "", old |-> ExtraOf(d[id], key),
          db |-> [d EXCEPT ![id].Extras = (key :> value) @@ @]]

\* Do(DoInsertArticle, "RootID", root, "Article", a): already exists when the
\* key is present, else a.NextID := the root's head, a is written, and the
\* root's head := a.ID
InsertArticle(d, root, id, a) ==
    IF Existed(d, id)
    THEN [err |-> "already exists", db |-> d]
    ELSE LET head == IF Existed(d, root) THEN d[root].NextID ELSE Empty
             rootRec == IF Existed(d, root)
                        THEN [d[root] EXCEPT !.NextID = id]
                        ELSE [Article("", <<>>, 0) EXCEPT !.NextID = id]
         IN [err |-> "", db |-> (id :> [a EXCEPT !.NextID = head]) @@ (root :> rootRec) @@ d]

\* Do(DoUpdateUser, "ID", id, field, inc): the counter moves by one
UpdateUser(u, id, field, inc) ==
    [u EXCEPT ![id][field] = @ + (IF inc THEN 1 ELSE -1)]

(***************************************************************************)
(* src/unnamed/part_000: FollowUser, BlockUser, insertChainOrUpdate        *)
(***************************************************************************)
\* strconv.FormatBool
FormatBool(b) == IF b THEN "true" ELSE "false"

\* a value that always says "true"
FollowValueTrue(following, unix) == <<"true", unix>>

\* strconv.FormatBool(following) + "," + strconv.FormatInt(unix, 10), kept as
\* the list of its comma-separated parts
FollowValue(following, unix) == <<FormatBool(following), unix>>

\* strings.HasPrefix(v, "true" | "false") of an extras value
HasPrefix(v, b) == Len(v) >= 1 /\ v[1] = b

\* strings.HasPrefix(to, "#")
IsTag(to) == to \in Tags

IsFollowing(d, from, to) ==
    /\ Existed(d, makeFollowID(from, to))
    /\ HasPrefix(ExtraOf(d[makeFollowID(from, to)], to), "true")

\* a veto that looks for the block of the follower on the target
IsBlockingByFrom(d, from, to) ==
    /\ Existed(d, makeBlockID(to, from))
    /\ ExtraOf(d[makeBlockID(to, from)], "block") = <<"true">>

IsBlocking(d, from, to) ==
    /\ Existed(d, makeBlockID(from, to))
    /\ ExtraOf(d[makeBlockID(from, to)], "block") = <<"true">>

\* the FollowUser a call runs: BlockUser(from, to, true) runs
\* FollowUser(to, from, false) first
FFrom(c) == IF c.op = "block" THEN c.to ELSE c.from
FTo(c) == IF c.op = "block" THEN c.from ELSE c.to
FVal(c) == IF c.op = "block" THEN FALSE ELSE c.val

NewCall(op, from, to, val, pc) ==
    [op |-> op, from |-> from, to |-> to, val |-> val, pc |-> pc, unix |-> 0,
     updated |-> FALSE, fE |-> "", E |-> "",
     alone |-> \A j \in DOMAIN call : call[j].pc = "done"]

CallFollowUser(from, to, following) ==
    /\ Len(call) < MaxCalls
    /\ call' = Append(call, NewCall("follow", from, to, following, "f_check"))
    /\ UNCHANGED <<db, users, bg, now, bucketVars, extraVars>>

CallBlockUser(from, to, blocking) ==
    /\ Len(call) < MaxCalls
    /\ call' = Append(call, NewCall("block", from, to, blocking,
                                    IF blocking THEN "f_check" ELSE "b_update"))
    /\ UNCHANGED <<db, users, bg, now, bucketVars, extraVars>>

\* where a call goes on when its FollowUser has returned
AfterFollow(c) == IF c.op = "block" THEN "b_update" ELSE "done"

\* a deferred function that starts the goroutine whenever E is nil
DeferredIgnoringUpdated(i, c, e, updated) ==
    IF e = ""
    THEN (i :> [from |-> FFrom(c), to |-> FTo(c), following |-> FVal(c),
                pc |-> "g_followings"]) @@ bg
    ELSE bg

\* FollowUser's deferred function: the goroutine is started when E is nil and
\* updated is set
Deferred(i, c, e, updated) ==
    IF e = "" /\ updated
    THEN (i :> [from |-> FFrom(c), to |-> FTo(c), following |-> FVal(c),
                pc |-> "g_followings"]) @@ bg
    ELSE bg

\* time.Now() answers t: the clock has stood still or moved on since it was
\* read last
TimeNow(t) ==
    /\ t \in now..(now + 1)
    /\ t <= MaxUnix
    /\ now' = t

\* lines 162-166 and the NewRequest of 182-186, whose value reads the clock
FollowCheck(i, t) ==
    LET c == call[i] IN
    /\ c.pc = "f_check"
    /\ IF FVal(c) /\ IsBlocking(db, FTo(c), FFrom(c))
       THEN /\ call' = [call EXCEPT ![i].fE = "follow/to-blocked",
                                    ![i].pc = AfterFollow(c)]
            /\ now' = now
       ELSE /\ call' = [call EXCEPT ![i].unix = t, ![i].pc = "f_update"]
            /\ TimeNow(t)
    /\ UNCHANGED <<db, users, bg, bucketVars, extraVars>>

\* lines 187-189 and 203-208: Do(r), r the update of Extras[to]
FollowUpdate(i) ==
    LET c == call[i]
        r == UpdateArticle(db, makeFollowID(FFrom(c), FTo(c)), FTo(c),
                           FollowValue(FVal(c), c.unix))
        updated == ~HasPrefix(r.old, FormatBool(FVal(c)))
    IN
    /\ c.pc = "f_update"
    /\ IF r.err = "not existed"
       THEN /\ call' = [call EXCEPT ![i].updated = TRUE, ![i].pc = "f_insert"]
            /\ UNCHANGED <<db, bg>>
       ELSE /\ db' = r.db
            /\ call' = [call EXCEPT ![i].updated = updated, ![i].pc = AfterFollow(c),
                                 ![i].unix = 0]
            /\ bg' = Deferred(i, c, "", updated)
    /\ UNCHANGED <<users, now, bucketVars, extraVars>>

\* lines 190-201: the insert into from's following chain
FollowInsert(i, t) ==
    LET c == call[i]
        r == InsertArticle(db, NewID("following", FFrom(c)),
                           makeFollowID(FFrom(c), FTo(c)),
                           Article("follow",
                                   FTo(c) :> FollowValue(FVal(c), c.unix), t))
    IN
    /\ c.pc = "f_insert"
    /\ TimeNow(t)
    /\ db' = r.db
    /\ call' = [call EXCEPT ![i].fE = r.err, ![i].pc = AfterFollow(c), ![i].unix = 0]
    /\ bg' = Deferred(i, c, r.err, c.updated)
    /\ UNCHANGED <<users, bucketVars, extraVars>>

\* insertChainOrUpdate, lines 277-279 and 300-302: the update of Extras[cmd]
ChainUpdate(d, aid, cmd, value) ==
    LET r == UpdateArticle(d, aid, cmd, <<FormatBool(value)>>)
    IN [err |-> r.err, db |-> r.db, updated |-> r.old # <<FormatBool(value)>>]

\* insertChainOrUpdate, lines 280-298: the insert when the update found no node
ChainInsert(d, aid, chainid, to, cmd, value, clock) ==
    LET r == InsertArticle(d, chainid, aid,
                 Article(cmd, ("to" :> <<to>>) @@ (cmd :> <<FormatBool(value)>>), clock))
    IN [err |-> r.err, db |-> r.db, updated |-> TRUE]

\* BlockUser, line 231: insertChainOrUpdate's update
BlockUpdate(i) ==
    LET c == call[i]
        r == ChainUpdate(db, makeBlockID(c.from, c.to), "block", c.val)
    IN
    /\ c.pc = "b_update"
    /\ IF r.err = "not existed"
       THEN /\ call' = [call EXCEPT ![i].pc = "b_insert"]
            /\ db' = db
       ELSE /\ call' = [call EXCEPT ![i].pc = "done", ![i].E = r.err]
            /\ db' = r.db
    /\ UNCHANGED <<users, bg, now, bucketVars, extraVars>>

\* BlockUser, line 231: insertChainOrUpdate's insert
BlockInsert(i, t) ==
    LET c == call[i]
        r == ChainInsert(db, makeBlockID(c.from, c.to), NewID("blacklist", c.from),
                         c.to, "block", c.val, t)
    IN
    /\ c.pc = "b_insert"
    /\ TimeNow(t)
    /\ call' = [call EXCEPT ![i].pc = "done", ![i].E = r.err]
    /\ db' = r.db
    /\ UNCHANGED <<users, bg, bucketVars, extraVars>>

\* the goroutine of lines 174-179, line 175
BgFollowings(i) ==
    /\ i \in DOMAIN bg
    /\ bg[i].pc = "g_followings"
    /\ users' = UpdateUser(users, bg[i].from, "Followings", bg[i].following)
    /\ bg' = [bg EXCEPT ![i].pc = IF IsTag(bg[i].to) THEN "end" ELSE "g_followers"]
    /\ UNCHANGED <<db, call, now, bucketVars, extraVars>>

\* fromFollowToNotifyTo, line 212
BgFollowers(i) ==
    /\ i \in DOMAIN bg
    /\ bg[i].pc = "g_followers"
    /\ users' = UpdateUser(users, bg[i].to, "Followers", bg[i].following)
    /\ bg' = [bg EXCEPT ![i].pc = "g_update"]
    /\ UNCHANGED <<db, call, now, bucketVars, extraVars>>

\* fromFollowToNotifyTo, lines 215-220: insertChainOrUpdate's update
BgFollowedUpdate(i) ==
    /\ i \in DOMAIN bg
    /\ bg[i].pc = "g_update"
    /\ LET r == ChainUpdate(db, makeFollowedID(bg[i].to, bg[i].from), "followed",
                            bg[i].following)
       IN IF r.err = "not existed"
          THEN /\ bg' = [bg EXCEPT ![i].pc = "g_insert"]
               /\ db' = db
          ELSE /\ bg' = [bg EXCEPT ![i].pc = "end"]
               /\ db' = r.db
    /\ UNCHANGED <<users, call, now, bucketVars, extraVars>>

\* fromFollowToNotifyTo, lines 215-220: insertChainOrUpdate's insert
BgFollowedInsert(i, t) ==
    /\ i \in DOMAIN bg
    /\ bg[i].pc = "g_insert"
    /\ LET r == ChainInsert(db, makeFollowedID(bg[i].to, bg[i].from),
                            NewID("follower", bg[i].to), bg[i].from, "followed",
                            bg[i].following, t)
       IN db' = r.db
    /\ TimeNow(t)
    /\ bg' = [bg EXCEPT ![i].pc = "end"]
    /\ UNCHANGED <<users, call, bucketVars, extraVars>>

\* the values time.Now() can answer
Clock == 0..MaxUnix

Init ==
    /\ db = <<>>
    /\ users = [u \in Users |-> [Followings |-> 0, Followers |-> 0]]
    /\ call = <<>>
    /\ bg = <<>>
    /\ now = 0
    /\ speed = 0 /\ capacity = 0 /\ maxCapacity = 0 /\ timeout = 0
    /\ lastConsume = 0 /\ mu = 0 /\ caller = <<>> /\ ret = NoRet /\ granted = 0
    /\ ulock = <<>> /\ chainlog = <<>> /\ walk = <<>>

Next ==
    \/ \E from \in Users, v \in BOOLEAN :
          \E to \in Targets \ {from} : CallFollowUser(from, to, v)
    \/ \E from \in Users, v \in BOOLEAN :
          \E to \in Users \ {from} : CallBlockUser(from, to, v)
    \/ \E i \in DOMAIN call, t \in Clock : FollowCheck(i, t)
    \/ \E i \in DOMAIN call : FollowUpdate(i)
    \/ \E i \in DOMAIN call, t \in Clock : FollowInsert(i, t)
    \/ \E i \in DOMAIN call : BlockUpdate(i)
    \/ \E i \in DOMAIN call, t \in Clock : BlockInsert(i, t)
    \/ \E i \in DOMAIN call : BgFollowings(i)
    \/ \E i \in DOMAIN call : BgFollowers(i)
    \/ \E i \in DOMAIN call : BgFollowedUpdate(i)
    \/ \E i \in DOMAIN call, t \in Clock : BgFollowedInsert(i, t)

Spec == Init /\ [][Next]_vars

(***************************************************************************)
(* src/unnamed/part_000: LikeArticle, and the goroutines of FollowUser and *)
(* LikeArticle when a request they send fails                              *)
(***************************************************************************)
\* the articles that can be liked, and who wrote them
Articles == {"p"}
AuthorOf(to) == "b"
\* the key of an article of content
ArticleID(to) == <<"article", to>>
makeLikeID(from, to) == <<"u/", from, "like", to>>
\* ik.NewGeneralID(): a fresh key, here one per goroutine
NewGeneralID(i) == <<"general", i>>

CallLikeArticle(from, to, liking) ==
    /\ Len(call) < MaxCalls
    /\ call' = Append(call, NewCall("like", from, to, liking, "l_update"))
    /\ UNCHANGED <<db, users, bg, now, bucketVars, extraVars>>

\* lines 250-251: the goroutine LikeArticle starts when updated is set
LikeGo(i, c, e, updated) ==
    IF e = "" /\ updated
    THEN (i :> [from |-> c.from, to |-> c.to, following |-> c.val, pc |-> "g_likes"]) @@ bg
    ELSE bg

\* LikeArticle, line 241: insertChainOrUpdate's update
LikeUpdate(i) ==
    LET c == call[i]
        r == ChainUpdate(db, makeLikeID(c.from, c.to), "like", c.val)
    IN
    /\ c.pc = "l_update"
    /\ IF r.err = "not existed"
       THEN /\ call' = [call EXCEPT ![i].pc = "l_insert"]
            /\ UNCHANGED <<db, bg>>
       ELSE /\ call' = [call EXCEPT ![i].pc = "done", ![i].E = r.err,
                                    ![i].updated = r.updated]
            /\ db' = r.db
            /\ bg' = LikeGo(i, c, r.err, r.updated)
    /\ UNCHANGED <<users, now, bucketVars, extraVars>>

\* LikeArticle, line 241: insertChainOrUpdate's insert
LikeInsert(i, t) ==
    LET c == call[i]
        r == ChainInsert(db, makeLikeID(c.from, c.to), NewID("like", c.from),
                         c.to, "like", c.val, t)
    IN
    /\ c.pc = "l_insert"
    /\ TimeNow(t)
    /\ call' = [call EXCEPT ![i].pc = "done", ![i].E = r.err, ![i].updated = r.updated]
    /\ db' = r.db
    /\ bg' = LikeGo(i, c, r.err, r.updated)
    /\ UNCHANGED <<users, bucketVars, extraVars>>

\* lines 252-255: Do(DoUpdateArticle, "ID", to, "IncDecLikes", liking) moves
\* the article's Likes by one; the notification follows when the author
\* follows `from` and this is a like
BgLikes(i) ==
    /\ i \in DOMAIN bg
    /\ bg[i].pc = "g_likes"
    /\ Existed(db, ArticleID(bg[i].to))
    /\ db' = [db EXCEPT ![ArticleID(bg[i].to)].Likes =
                   @ + (IF bg[i].following THEN 1 ELSE -1)]
    /\ bg' = [bg EXCEPT ![i].pc =
                   IF IsFollowing(db, AuthorOf(bg[i].to), bg[i].from) /\ bg[i].following
                   THEN "g_inbox" ELSE "end"]
    /\ UNCHANGED <<users, call, now, bucketVars, extraVars>>

\* lines 256-266: the notification is inserted into the author's inbox
BgInbox(i, t) ==
    /\ i \in DOMAIN bg
    /\ bg[i].pc = "g_inbox"
    /\ TimeNow(t)
    /\ db' = InsertArticle(db, NewID("inbox", AuthorOf(bg[i].to)), NewGeneralID(i),
                           Article("inbox-like",
                                   ("from" :> <<bg[i].from>>)
                                       @@ ("article_id" :> <<bg[i].to>>), t)).db
    /\ bg' = [bg EXCEPT ![i].pc = "g_unread"]
    /\ UNCHANGED <<users, call, bucketVars, extraVars>>

\* line 267: Do(DoUpdateUser, "ID", a.Author, "IncUnread", true)
BgUnread(i) ==
    /\ i \in DOMAIN bg
    /\ bg[i].pc = "g_unread"
    /\ users' = UpdateUser(users, AuthorOf(bg[i].to), "Unread", TRUE)
    /\ bg' = [bg EXCEPT ![i].pc = "end"]
    /\ UNCHANGED <<db, call, now, bucketVars, extraVars>>

\* where a goroutine goes on when the request it sends at pc fails: line 175
\* and lines 256-266 drop the error, lines 212-214 and 253 end the goroutine
AfterFailure(g) ==
    CASE g.pc = "g_followings" -> IF IsTag(g.to) THEN "end" ELSE "g_followers"
      [] g.pc = "g_inbox" -> "g_unread"
      [] OTHER -> "end"

\* a failure that takes the edge the call wrote out of the store again
BgFailRollingBack(i) ==
    /\ i \in DOMAIN bg
    /\ bg[i].pc # "end"
    /\ bg' = [bg EXCEPT ![i] = [pc |-> AfterFailure(bg[i]), failed |-> TRUE] @@ @]
    /\ db' = [id \in DOMAIN db \ {makeFollowID(bg[i].from, bg[i].to),
                                   makeLikeID(bg[i].from, bg[i].to)} |-> db[id]]
    /\ UNCHANGED <<users, call, now, bucketVars, extraVars>>

\* the request a goroutine sends fails (the store is throttled or down):
\* nothing is written
BgFail(i) ==
    /\ i \in DOMAIN bg
    /\ bg[i].pc # "end"
    /\ bg' = [bg EXCEPT ![i] = [pc |-> AfterFailure(bg[i]), failed |-> TRUE] @@ @]
    /\ UNCHANGED <<db, users, call, now, bucketVars, extraVars>>

InitFail ==
    /\ db = [id \in {ArticleID(to) : to \in Articles} |->
                [Cmd |-> "", Extras |-> <<>>, NextID |-> Empty, CreateTime |-> 0,
                 Author |-> "b", Likes |-> 0]]
    /\ users = [u \in Users |-> [Followings |-> 0, Followers |-> 0, Unread |-> 0]]
    /\ call = <<>>
    /\ bg = <<>>
    /\ now = 0
    /\ speed = 0 /\ capacity = 0 /\ maxCapacity = 0 /\ timeout = 0
    /\ lastConsume = 0 /\ mu = 0 /\ caller = <<>> /\ ret = NoRet /\ granted = 0
    /\ ulock = <<>> /\ chainlog = <<>> /\ walk = <<>>

NextFail ==
    \/ \E from \in Users, v \in BOOLEAN :
          \E to \in Targets \ {from} : CallFollowUser(from, to, v)
    \/ \E from \in Users, to \in Articles, v \in BOOLEAN : CallLikeArticle(from, to, v)
    \/ \E i \in DOMAIN call, t \in Clock : FollowCheck(i, t)
    \/ \E i \in DOMAIN call : FollowUpdate(i)
    \/ \E i \in DOMAIN call, t \in Clock : FollowInsert(i, t)
    \/ \E i \in DOMAIN call : LikeUpdate(i)
    \/ \E i \in DOMAIN call, t \in Clock : LikeInsert(i, t)
    \/ \E i \in DOMAIN call : BgFollowings(i)
    \/ \E i \in DOMAIN call : BgFollowers(i)
    \/ \E i \in DOMAIN call : BgFollowedUpdate(i)
    \/ \E i \in DOMAIN call, t \in Clock : BgFollowedInsert(i, t)
    \/ \E i \in DOMAIN call : BgLikes(i)
    \/ \E i \in DOMAIN call, t \in Clock : BgInbox(i, t)
    \/ \E i \in DOMAIN call : BgUnread(i)
    \/ \E i \in DOMAIN call : BgFail(i)

SpecFail == InitFail /\ [][NextFail]_vars

(***************************************************************************)
(* The executor's update-user-aggregate request, step by step: the         *)
(* read-modify-write of the user record under the executor's lock of the   *)
(* target id (specification, section 4.3), as issued by the goroutines     *)
(* FollowUser starts (part_000:174-179, 211-214).                          *)
(***************************************************************************)
\* the user id a goroutine's request in progress targets
Target(g) == IF g.req = "Followings" THEN g.from ELSE g.to

\* lines 169-180: the deferred function starts a goroutine; its first request
\* is Do(NewRequest(DoUpdateUser, "ID", from, "IncDecFollowings", following))
GoStart(from, to, following) ==
    /\ Len(bg) < MaxRequests
    /\ bg' = Append(bg, [from |-> from, to |-> to, following |-> following,
                         req |-> "Followings", ph |-> "wait", tmp |-> 0])
    /\ UNCHANGED <<db, users, call, now, bucketVars, extraVars>>

\* an executor that runs the request without taking the lock of its target
ExecLockNotTaken(g) ==
    /\ bg[g].ph = "wait"
    /\ bg' = [bg EXCEPT ![g].ph = "read"]
    /\ UNCHANGED <<db, users, call, now, bucketVars, extraVars>>

\* Do: the executor takes the lock of the request's target id
ExecLock(g) ==
    /\ bg[g].ph = "wait"
    /\ ulock[Target(bg[g])] = 0
    /\ ulock' = [ulock EXCEPT ![Target(bg[g])] = g]
    /\ bg' = [bg EXCEPT ![g].ph = "read"]
    /\ UNCHANGED <<db, users, call, now, bucketVars, walkVars>>

\* Do: the user record is read
ExecRead(g) ==
    /\ bg[g].ph = "read"
    /\ bg' = [bg EXCEPT ![g].ph = "write", ![g].tmp = users[Target(bg[g])][bg[g].req]]
    /\ UNCHANGED <<db, users, call, now, bucketVars, extraVars>>

\* Do: the counter moved by one is written back and the lock released; the
\* goroutine goes on to fromFollowToNotifyTo's request (lines 176-178, 212)
\* unless `to` is a tag
ExecWrite(g) ==
    /\ bg[g].ph = "write"
    /\ users' = [users EXCEPT ![Target(bg[g])][bg[g].req] =
                     bg[g].tmp + (IF bg[g].following THEN 1 ELSE -1)]
    /\ ulock' = [ulock EXCEPT ![Target(bg[g])] = IF @ = g THEN 0 ELSE @]
    /\ bg' = [bg EXCEPT ![g] =
                 IF bg[g].req = "Followings" /\ ~IsTag(bg[g].to)
                 THEN [@ EXCEPT !.req = "Followers", !.ph = "wait", !.tmp = 0]
                 ELSE [@ EXCEPT !.req = "none", !.ph = "end", !.tmp = 0]]
    /\ UNCHANGED <<db, call, now, bucketVars, walkVars>>

InitExec ==
    /\ users = [u \in Users |-> [Followings |-> 0, Followers |-> 0]]
    /\ ulock = [u \in Users |-> 0]
    /\ bg = <<>>
    /\ db = <<>> /\ call = <<>> /\ now = 0
    /\ speed = 0 /\ capacity = 0 /\ maxCapacity = 0 /\ timeout = 0
    /\ lastConsume = 0 /\ mu = 0 /\ caller = <<>> /\ ret = NoRet /\ granted = 0
    /\ chainlog = <<>> /\ walk = <<>>

NextExec ==
    \/ \E from \in Users, v \in BOOLEAN :
          \E to \in Targets \ {from} : GoStart(from, to, v)
    \/ \E g \in DOMAIN bg : ExecLock(g)
    \/ \E g \in DOMAIN bg : ExecRead(g)
    \/ \E g \in DOMAIN bg : ExecWrite(g)

SpecExec == InitExec /\ [][NextExec]_vars

(***************************************************************************)
(* Claims about the executor                                               *)
(***************************************************************************)
\* the requests on counter `field` of user u that have completed, counted
\* +1 for an increment and -1 for a decrement
Completed(u, field) ==
    LET done(g) == IF field = "Followings"
                   THEN bg[g].from = u /\ bg[g].req # "Followings"
                   ELSE bg[g].to = u /\ bg[g].req = "none"
    IN Cardinality({g \in DOMAIN bg : done(g) /\ bg[g].following})
       - Cardinality({g \in DOMAIN bg : done(g) /\ ~bg[g].following})

\* C6: once all the update-user requests of the started goroutines have
\* completed, every counter is its initial value (0) plus the increments
\* minus the decrements requested on it: K concurrent increments of one
\* user's counter leave it at K.
C6_NoLostUpdate ==
    (\A g \in DOMAIN bg : bg[g].ph = "end") =>
        \A u \in Users :
            /\ users[u].Followings = Completed(u, "Followings")
            /\ users[u].Followers = Completed(u, "Followers")

\* C6 witness: MaxRequests goroutines have each incremented a's Followings
\* and b's Followers, and all have ended
C6_Witness ==
    /\ Len(bg) = MaxRequests
    /\ \A g \in DOMAIN bg : /\ bg[g].ph = "end" /\ bg[g].following
                            /\ bg[g].from = "a" /\ bg[g].to = "b"
    /\ users["a"].Followings = MaxRequests
    /\ users["b"].Followers = MaxRequests

(***************************************************************************)
(* src/unnamed/part_000: GetFollowingList, over a chain that insert-node,  *)
(* update-node and the driver's Delete have built; the store is at rest    *)
(* while the list is read                                                  *)
(***************************************************************************)
\* the other parties of the edges of user "a"
UserNames == <<"b", "c", "d", "e", "f">>
Others == {UserNames[k] : k \in 1..MaxChain}
\* the chains walked: a's following chain and a's blacklist
ChainKinds == {"follow", "block"}
RootOf(kind) == IF kind = "follow" THEN NewID("following", "a") ELSE NewID("blacklist", "a")
NodeID(kind, to) == IF kind = "follow" THEN makeFollowID("a", to) ELSE makeBlockID("a", to)
\* the n GetFollowingList is called with
WalkNs == {1, MaxChain}
\* time.Since(start).Seconds() > 0.2, in tenths of a second
BudgetTenths == 2

IdleWalk == [pc |-> "idle", arg |-> Empty, n |-> 0, cursor |-> Empty, res |-> <<>>,
             elapsed |-> 0, visited |-> <<>>, stop |-> "none"]

\* strings.HasPrefix(cursor, "u/")
HasPrefixU(id) == Len(id) >= 1 /\ id[1] = "u/"

\* the insert FollowUser (lines 190-197) or insertChainOrUpdate (281-298) does
InsertNode(to, v, t) ==
    LET kind == chainlog.kind
        a == IF kind = "follow"
             THEN Article("follow", to :> FollowValue(v, t), t)
             ELSE Article(kind, ("to" :> <<to>>) @@ (kind :> <<FormatBool(v)>>), t)
        r == InsertArticle(db, RootOf(kind), NodeID(kind, to), a)
    IN
    /\ walk.pc = "idle"
    /\ to \notin {chainlog.order[k] : k \in DOMAIN chainlog.order}
    /\ TimeNow(t)
    /\ db' = r.db
    /\ chainlog' = [chainlog EXCEPT !.order = Append(@, to)]
    /\ UNCHANGED walk
    /\ UNCHANGED <<users, call, bg, bucketVars, execVars>>

\* an update-node upsert of one extras key of a stored node: key is another
\* party on a follow node, the relation on an edge node
SetExtra(to, key, v, t) ==
    LET kind == chainlog.kind
        r == IF kind = "follow"
             THEN UpdateArticle(db, NodeID(kind, to), key, FollowValue(v, t))
             ELSE UpdateArticle(db, NodeID(kind, to), kind, <<FormatBool(v)>>)
    IN
    /\ walk.pc = "idle"
    /\ chainlog.updates < MaxUpdates
    /\ r.err = ""
    /\ kind # "follow" => key = to
    /\ TimeNow(t)
    /\ db' = r.db
    /\ chainlog' = [chainlog EXCEPT !.pure = FALSE, !.updates = @ + 1]
    /\ UNCHANGED walk
    /\ UNCHANGED <<users, call, bg, bucketVars, execVars>>

\* the driver's Delete (src/action/util.go:200) of a node's record
DeleteNode(to) ==
    LET id == NodeID(chainlog.kind, to) IN
    /\ walk.pc = "idle"
    /\ id \in DOMAIN db
    /\ db' = [x \in DOMAIN db \ {id} |-> db[x]]
    /\ chainlog' = [chainlog EXCEPT !.pure = FALSE]
    /\ UNCHANGED walk
    /\ UNCHANGED <<users, call, bg, now, bucketVars, execVars>>

\* GetFollowingList, lines 315-327
WalkStart(arg, n) ==
    /\ walk.pc = "idle"
    /\ IF arg = Empty /\ ~Existed(db, RootOf(chainlog.kind))
       THEN walk' = [IdleWalk EXCEPT !.pc = "done", !.arg = arg, !.n = n,
                                     !.stop = "noroot"]
       ELSE walk' = [IdleWalk EXCEPT !.pc = "loop", !.arg = arg, !.n = n,
                         !.cursor = IF arg = Empty
                                    THEN db[RootOf(chainlog.kind)].NextID
                                    ELSE arg]
    /\ UNCHANGED <<db, users, call, bg, now, chainlog, bucketVars, execVars>>

\* atob(p[0])
atob(s) == s = "true"

\* lines 341-361: the entries a loaded node adds; keys is the order in which
\* the range over a.Extras meets the keys
EntriesOf(a, keys) ==
    IF a.Cmd = "follow"
    THEN LET good == SelectSeq(keys, LAMBDA k : Len(a.Extras[k]) = 2)
         IN [i \in DOMAIN good |->
                [ID |-> good[i], Time |-> a.Extras[good[i]][2],
                 Followed |-> atob(a.Extras[good[i]][1]),
                 RevFollowed |-> FALSE, Liked |-> FALSE, Blocked |-> FALSE]]
    ELSE << [ID |-> IF ExtraOf(a, "to") = Empty THEN "" ELSE ExtraOf(a, "to")[1],
             Time |-> a.CreateTime,
             Followed |-> FALSE,
             RevFollowed |-> ExtraOf(a, "followed") = <<"true">>,
             Liked |-> ExtraOf(a, "like") = <<"true">>,
             Blocked |-> ExtraOf(a, "block") = <<"true">>] >>

\* the orders a range over a map with these keys can take
Orders(S) == {s \in [1..Cardinality(S) -> S] : \A i, j \in DOMAIN s : i # j => s[i] # s[j]}

\* a comparison the wrong way round: oldest first
RECURSIVE SortOldestFirst(_)
SortOldestFirst(res) ==
    IF res = <<>> THEN <<>>
    ELSE LET n == Len(res)
             front == SortOldestFirst(SubSeq(res, 1, n - 1))
             x == res[n]
             keep == Cardinality({i \in DOMAIN front : front[i].Time <= x.Time})
         IN SubSeq(front, 1, keep) \o <<x>> \o SubSeq(front, keep + 1, Len(front))

\* a result handed back in the order the walk met the entries
Unsorted(res) == res

\* line 366: sort.Slice(res, Time.After); on the short slices of this model
\* sort.Slice is an insertion sort, which keeps entries of equal time in order
RECURSIVE SortByTime(_)
SortByTime(res) ==
    IF res = <<>> THEN <<>>
    ELSE LET n == Len(res)
             front == SortByTime(SubSeq(res, 1, n - 1))
             x == res[n]
             keep == Cardinality({i \in DOMAIN front : front[i].Time >= x.Time})
         IN SubSeq(front, 1, keep) \o <<x>> \o SubSeq(front, keep + 1, Len(front))

\* a failed load that drops what the walk has collected
OnLoadErrorDropping(res) == <<>>

\* lines 336-339: a failed load is logged and ends the loop with res as it is
OnLoadError(res) == res

\* a walk without a time budget
NeverOverBudget(elapsed) == FALSE

\* line 330: time.Since(start).Seconds() > 0.2
OverBudget(elapsed) == elapsed > BudgetTenths

\* the loop has ended: lines 366-368
WalkReturn(res, cursor, why) ==
    [walk EXCEPT !.pc = "done", !.res = SortByTime(res), !.cursor = cursor,
                 !.stop = why]

\* lines 329-364: the loop's test and one pass of its body
WalkStep(keys) ==
    /\ walk.pc = "loop"
    /\ IF ~(Len(walk.res) < walk.n)
       THEN /\ keys = <<>>
            /\ walk' = WalkReturn(walk.res, walk.cursor, "count")
       ELSE IF ~HasPrefixU(walk.cursor)
       THEN /\ keys = <<>>
            /\ walk' = WalkReturn(walk.res, walk.cursor, "end")
       ELSE IF OverBudget(walk.elapsed)
       THEN /\ keys = <<>>
            /\ walk' = WalkReturn(walk.res, walk.cursor, "budget")
       ELSE IF ~Existed(db, walk.cursor)
       THEN /\ keys = <<>>
            /\ walk' = WalkReturn(OnLoadError(walk.res), walk.cursor, "load")
       ELSE LET a == db[walk.cursor] IN
            /\ keys \in (IF a.Cmd = "follow" THEN Orders(DOMAIN a.Extras) ELSE {<<>>})
            /\ walk' = [walk EXCEPT !.res = @ \o EntriesOf(a, keys),
                                    !.visited = IF Len(@) < MaxVisited
                                                 THEN Append(@, walk.cursor)
                                                 ELSE @,
                                    !.cursor = a.NextID]
    /\ UNCHANGED <<db, users, call, bg, now, chainlog, bucketVars, execVars>>

\* a tenth of a second passes under the walk
WalkTick ==
    /\ walk.pc = "loop"
    /\ walk.elapsed < MaxElapsed
    /\ walk' = [walk EXCEPT !.elapsed = @ + 1]
    /\ UNCHANGED <<db, users, call, bg, now, chainlog, bucketVars, execVars>>

InitChain ==
    /\ db = <<>>
    /\ chainlog \in {[kind |-> k, order |-> <<>>, pure |-> TRUE, updates |-> 0] : k \in ChainKinds}
    /\ walk = IdleWalk
    /\ now = 0
    /\ users = <<>> /\ call = <<>> /\ bg = <<>> /\ ulock = <<>>
    /\ speed = 0 /\ capacity = 0 /\ maxCapacity = 0 /\ timeout = 0
    /\ lastConsume = 0 /\ mu = 0 /\ caller = <<>> /\ ret = NoRet /\ granted = 0

\* the key orders of the stored nodes
KeyOrders == {<<>>} \cup UNION {Orders(DOMAIN db[id].Extras) : id \in DOMAIN db}

NextChain ==
    \/ \E to \in Others, v \in BOOLEAN, t \in Clock : InsertNode(to, v, t)
    \/ \E to \in Others, key \in Others, v \in BOOLEAN, t \in Clock : SetExtra(to, key, v, t)
    \/ \E to \in Others : DeleteNode(to)
    \/ \E arg \in {Empty} \cup {NodeID(chainlog.kind, to) : to \in Others}, n \in WalkNs :
          WalkStart(arg, n)
    \/ \E keys \in KeyOrders : WalkStep(keys)
    \/ WalkTick

SpecChain == InitChain /\ [][NextChain]_vars

(***************************************************************************)
(* GetFollowingList over records that older versions of the program or a   *)
(* damaged store left behind: written by the driver's Put, they can point  *)
(* anywhere and hold values without a timestamp                            *)
(***************************************************************************)
LegacyOthers == {UserNames[k] : k \in 1..MaxLegacy}
\* the key of a record of the legacy following chain: no "u/" prefix
LegacyID == <<"legacy", "a">>
LegacyNexts == {Empty, LegacyID} \cup {NodeID(k, to) : k \in ChainKinds, to \in LegacyOthers}

\* the driver's Put (src/action/util.go:198) of a chain member; a legacy
\* follow value is the bare boolean
PutNode(to, next, stamped) ==
    LET kind == chainlog.kind
        a == IF kind = "follow"
             THEN Article("follow",
                          to :> (IF stamped THEN FollowValue(TRUE, now) ELSE <<"true">>),
                          now)
             ELSE Article(kind, ("to" :> <<to>>) @@ (kind :> <<"true">>), now)
    IN
    /\ walk.pc = "idle"
    /\ next \in {Empty, LegacyID} \cup {NodeID(kind, o) : o \in LegacyOthers}
    /\ db' = (NodeID(kind, to) :> [a EXCEPT !.NextID = next]) @@ db
    /\ chainlog' = [chainlog EXCEPT !.pure = FALSE]
    /\ UNCHANGED <<walk, users, call, bg, now, bucketVars, execVars>>

\* GetUser, lines 55-61: the migration writes the following root with the
\* NextID its walk of the legacy chain ended on, when no root is stored
PutRoot(next) ==
    LET root == RootOf(chainlog.kind) IN
    /\ walk.pc = "idle"
    /\ chainlog.kind = "follow"
    /\ next \in {LegacyID} \cup {NodeID("follow", o) : o \in LegacyOthers}
    /\ ~Existed(db, root)
    /\ db' = (root :> [Article("", <<>>, 0) EXCEPT !.NextID = next]) @@ db
    /\ chainlog' = [chainlog EXCEPT !.pure = FALSE]
    /\ UNCHANGED <<walk, users, call, bg, now, bucketVars, execVars>>

NextLegacy ==
    \/ \E to \in LegacyOthers, next \in LegacyNexts, stamped \in BOOLEAN :
          PutNode(to, next, stamped)
    \/ \E next \in LegacyNexts : PutRoot(next)
    \/ \E arg \in {Empty} \cup {NodeID(chainlog.kind, to) : to \in LegacyOthers},
          n \in WalkNs : WalkStart(arg, n)
    \/ \E keys \in KeyOrders : WalkStep(keys)
    \/ WalkTick

\* the walk is a running goroutine and the wall clock moves on under it
SpecLegacy ==
    /\ InitChain /\ [][NextLegacy]_vars
    /\ WF_vars(\E keys \in KeyOrders : WalkStep(keys))
    /\ WF_vars(WalkTick)

(***************************************************************************)
(* src/unnamed/part_000: the migration of the legacy following chain that  *)
(* GetUser starts in the background (lines 41-64), step by step, next to   *)
(* the inserts FollowUser makes under the same root                        *)
(***************************************************************************)
\* the follow node the legacy chain of "a" ends on
OldNodeID == makeFollowID("a", "z")
\* a key of the legacy chain that is no longer stored
GoneID == <<"legacy", "gone">>

\* lines 43-54: from u.FollowingChain along NextID to the first record whose
\* NextID has the "u/" prefix; the walk breaks off on a record it cannot load
RECURSIVE LegacyEnd(_, _, _)
LegacyEnd(d, fc, k) ==
    IF k = 0 \/ HasPrefixU(d[fc].NextID) \/ ~Existed(d, d[fc].NextID)
    THEN d[fc].NextID
    ELSE LegacyEnd(d, d[fc].NextID, k - 1)

\* lines 41-42: GetUser finds u.FollowingChain set and starts the goroutine
MigrateStart ==
    /\ Len(bg) < MaxMigrations
    /\ bg' = Append(bg, [pc |-> "m_walk", next |-> Empty])
    /\ UNCHANGED <<db, users, call, now, bucketVars, extraVars>>

\* lines 43-58: the legacy chain is walked and the root record is built
MigrateWalk(g) ==
    /\ bg[g].pc = "m_walk"
    /\ bg' = [bg EXCEPT ![g] =
                 IF Existed(db, LegacyID)
                 THEN [pc |-> "m_check",
                       next |-> LegacyEnd(db, LegacyID, Cardinality(DOMAIN db))]
                 ELSE [pc |-> "end", next |-> Empty]]
    /\ UNCHANGED <<db, users, call, now, bucketVars, extraVars>>

\* line 59: GetArticle(a.ID) answers ErrNotExisted or finds the root
MigrateCheck(g) ==
    /\ bg[g].pc = "m_check"
    /\ bg' = [bg EXCEPT ![g].pc =
                 IF Existed(db, RootOf("follow")) THEN "end" ELSE "m_set"]
    /\ UNCHANGED <<db, users, call, now, bucketVars, extraVars>>

\* line 60: m.db.Set(a.ID, a.Marshal()) writes the root record built at
\* lines 55-58 over whatever is stored under the key
MigrateSet(g) ==
    /\ bg[g].pc = "m_set"
    /\ db' = (RootOf("follow") :>
                 [Article("", <<>>, 0) EXCEPT !.NextID = bg[g].next]) @@ db
    /\ bg' = [bg EXCEPT ![g].pc = "end"]
    /\ UNCHANGED <<users, call, now, bucketVars, extraVars>>

\* the store holds the legacy chain of "a": its head record, which points to
\* the old follow node or to a record that is gone
InitMigrate ==
    /\ \E broken \in BOOLEAN :
          db = (LegacyID :> [Article("", <<>>, 0) EXCEPT
                                !.NextID = IF broken THEN GoneID ELSE OldNodeID])
               @@ (OldNodeID :> Article("follow", "z" :> FollowValue(TRUE, 0), 0))
    /\ chainlog = [kind |-> "follow", order |-> <<>>, pure |-> TRUE, updates |-> 0]
    /\ walk = IdleWalk
    /\ now = 0
    /\ users = <<>> /\ call = <<>> /\ bg = <<>> /\ ulock = <<>>
    /\ speed = 0 /\ capacity = 0 /\ maxCapacity = 0 /\ timeout = 0
    /\ lastConsume = 0 /\ mu = 0 /\ caller = <<>> /\ ret = NoRet /\ granted = 0

NextMigrate ==
    \/ MigrateStart
    \/ \E g \in DOMAIN bg : MigrateWalk(g)
    \/ \E g \in DOMAIN bg : MigrateCheck(g)
    \/ \E g \in DOMAIN bg : MigrateSet(g)
    \/ \E to \in Others, v \in BOOLEAN, t \in Clock : InsertNode(to, v, t)

SpecMigrate == InitMigrate /\ [][NextMigrate]_vars

(***************************************************************************)
(* Claims about FollowUser and BlockUser                                   *)
(***************************************************************************)
\* the record stored under id holds value under key
Stored(d, id, key, value) ==
    /\ id \in DOMAIN d
    /\ key \in DOMAIN d[id].Extras
    /\ d[id].Extras[key] = value

\* the follow state stored for the pair: true when Extras[to] of the pair's
\* follow node starts with "true"; an absent node or key is not a follow
StoredFollow(d, from, to) ==
    /\ makeFollowID(from, to) \in DOMAIN d
    /\ to \in DOMAIN d[makeFollowID(from, to)].Extras
    /\ Len(d[makeFollowID(from, to)].Extras[to]) >= 1
    /\ d[makeFollowID(from, to)].Extras[to][1] = "true"

\* call i takes a step
Steps(i) == call'[i] # call[i]

\* every goroutine started so far has run to its end
Quiet == \A i \in DOMAIN bg : bg[i].pc = "end"

\* C1: FollowUser(from, to, true) that finds the block of `to` on `from`
\* stored returns the error follow/to-blocked and mutates nothing: the store,
\* the user counters and the set of started goroutines are as before, and no
\* goroutine is ever started for that call.
C1_Step(i) ==
    (/\ call[i].op = "follow" /\ call[i].val /\ call[i].pc = "f_check"
     /\ Steps(i)
     /\ Stored(db, makeBlockID(call[i].to, call[i].from), "block", <<"true">>))
    => (/\ call'[i].pc = "done"
        /\ call'[i].fE = "follow/to-blocked"
        /\ ~call'[i].updated
        /\ db' = db /\ users' = users /\ bg' = bg
        /\ i \notin DOMAIN bg')

C1_BlockedFollowVetoed == [][\A i \in DOMAIN call : C1_Step(i)]_vars

\* C1 witness: a FollowUser(from, to, true) has returned follow/to-blocked
C1_Witness ==
    \E i \in DOMAIN call :
        /\ call[i].op = "follow" /\ call[i].val /\ call[i].pc = "done"
        /\ call[i].fE = "follow/to-blocked"

\* C2: when the first two calls are FollowUser(a, b, true) twice, the second
\* made after the first returned and not overlapped by a later call, the
\* first returns nil with updated set and the second returns nil with updated
\* clear; only the first starts a goroutine, and when these are the only
\* calls and the goroutine has ended a's Followings and b's Followers are 1.
C2_Pair(a, b) ==
    (/\ Len(call) >= 2
     /\ \A i \in 1..2 : /\ call[i].op = "follow" /\ call[i].from = a
                        /\ call[i].to = b /\ call[i].val /\ call[i].pc = "done"
     /\ call[2].alone
     /\ Len(call) >= 3 => call[3].alone)
    => (/\ call[1].fE = "" /\ call[1].updated
        /\ call[2].fE = "" /\ ~call[2].updated
        /\ 1 \in DOMAIN bg /\ 2 \notin DOMAIN bg
        /\ (Len(call) = 2 /\ Quiet) =>
              /\ users[a].Followings = 1
              /\ b \in Users => users[b].Followers = 1)

C2_SecondFollowNoChange == \A a \in Users : \A b \in Targets \ {a} : C2_Pair(a, b)

\* C2 witness: FollowUser("a", "b", true) twice in a row, all side effects done
C2_Witness ==
    /\ Len(call) = 2
    /\ \A i \in 1..2 : /\ call[i].op = "follow" /\ call[i].from = "a"
                       /\ call[i].to = "b" /\ call[i].val /\ call[i].pc = "done"
    /\ call[2].alone
    /\ 1 \in DOMAIN bg /\ Quiet

\* the ids met walking NextID from id, at most k of them
RECURSIVE Links(_, _, _)
Links(d, id, k) ==
    IF k = 0 \/ id = Empty \/ id \notin DOMAIN d THEN <<>>
    ELSE <<id>> \o Links(d, d[id].NextID, k - 1)

\* the members of the chain under root
Chain(d, root) ==
    IF root \in DOMAIN d THEN Links(d, d[root].NextID, Cardinality(DOMAIN d) + 1)
    ELSE <<>>

Occurrences(seq, x) == Cardinality({k \in DOMAIN seq : seq[k] = x})

\* C3: for every pair a follow node is stored iff it is linked exactly once
\* into from's following chain, whatever FollowUser calls interleave.  The
\* first FollowUser inserts it (after the update answered not existed) with
\* Extras[to] = "<bool>,<ts>" of that call; an insert that finds the key
\* stored fails with already exists and changes nothing; a FollowUser(from,
\* to, false) that finds the node rewrites Extras[to] to "false,<ts2>" on
\* that node and adds no record.
C3_Linked(d) ==
    \A from \in Users : \A to \in Targets \ {from} :
        Occurrences(Chain(d, NewID("following", from)), makeFollowID(from, to))
            = IF makeFollowID(from, to) \in DOMAIN d THEN 1 ELSE 0

C3_Step(i) ==
    LET c == call[i]
        id == makeFollowID(FFrom(c), FTo(c))
    IN /\ (c.pc = "f_insert" /\ Steps(i) /\ id \notin DOMAIN db) =>
              /\ call'[i].fE = ""
              /\ Stored(db', id, FTo(c), <<FormatBool(FVal(c)), c.unix>>)
              /\ DOMAIN db'[id].Extras = {FTo(c)}
              /\ db'[id].Cmd = "follow"
       /\ (c.pc = "f_insert" /\ Steps(i) /\ id \in DOMAIN db) =>
              /\ call'[i].fE = "already exists"
              /\ db' = db
       /\ (c.pc = "f_update" /\ Steps(i) /\ id \in DOMAIN db) =>
              /\ Stored(db', id, FTo(c), <<FormatBool(FVal(c)), c.unix>>)
              /\ DOMAIN db' = DOMAIN db
              /\ Chain(db', NewID("following", FFrom(c)))
                     = Chain(db, NewID("following", FFrom(c)))
       /\ (c.pc = "f_update" /\ Steps(i) /\ id \notin DOMAIN db) =>
              /\ db' = db
              /\ call'[i].pc = "f_insert"

C3_OneFollowNode == [][C3_Linked(db') /\ \A i \in DOMAIN call : C3_Step(i)]_vars

\* C3 witness: an unfollow has rewritten the node a follow had inserted, and
\* a competing insert of the same key has failed
C3_Witness ==
    /\ Stored(db, makeFollowID("a", "b"), "b", <<"false", 1>>)
    /\ \E i \in DOMAIN call : call[i].fE = "already exists"

\* C4: a goroutine with the counter updates is started only by a call that
\* changed the stored follow state of its pair; in particular
\* FollowUser(from, to, false) for a pair that is not stored as followed
\* reports no change.
C4_Step(i) ==
    (i \notin DOMAIN bg /\ i \in DOMAIN bg') =>
        StoredFollow(db', FFrom(call[i]), FTo(call[i]))
            # StoredFollow(db, FFrom(call[i]), FTo(call[i]))

C4_ChangeOnlyWhenChanged == [][\A i \in DOMAIN call : C4_Step(i)]_vars

\* C5: a FollowUser whose value is the boolean already stored for the pair
\* leaves the stored Extras[to], timestamp included, as it was.
C5_Step(i) ==
    LET c == call[i]
        id == makeFollowID(FFrom(c), FTo(c))
    IN (/\ c.pc = "f_update" /\ Steps(i)
        /\ id \in DOMAIN db
        /\ HasPrefix(ExtraOf(db[id], FTo(c)), FormatBool(FVal(c))))
       => ExtraOf(db'[id], FTo(c)) = ExtraOf(db[id], FTo(c))

C5_SameValueKeepsStored == [][\A i \in DOMAIN call : C5_Step(i)]_vars

\* the edge records FollowUser and LikeArticle write themselves
PrimaryEdges(d) ==
    {id \in DOMAIN d : Len(id) = 4 /\ id[1] = "u/" /\ id[3] \in {"follow", "like"}}

\* C14: a goroutine of FollowUser or LikeArticle exists only once its call
\* has returned, and no step of a goroutine, failed requests included,
\* changes what any call returned or an edge record a call wrote.
C14_Step(i) ==
    /\ (i \notin DOMAIN bg /\ i \in DOMAIN bg') => call'[i].pc = "done"
    /\ (i \in DOMAIN bg /\ i \in DOMAIN bg' /\ bg'[i] # bg[i]) =>
           /\ call' = call
           /\ PrimaryEdges(db') = PrimaryEdges(db)
           /\ \A id \in PrimaryEdges(db) : db'[id] = db[id]

C14_SideEffectsDetached == [][\A i \in DOMAIN call : C14_Step(i)]_vars

\* C14 witness: a follow and a like have returned nil, a request of each
\* one's goroutine has failed, and both edges are stored
C14_Witness ==
    /\ Len(call) = 2
    /\ \A i \in DOMAIN call : /\ call[i].pc = "done" /\ call[i].E = "" /\ call[i].fE = ""
                               /\ call[i].updated
                               /\ i \in DOMAIN bg /\ bg[i].pc = "end"
                               /\ "failed" \in DOMAIN bg[i]
    /\ call[1].op = "follow" /\ StoredFollow(db, call[1].from, call[1].to)
    /\ call[2].op = "like"
    /\ Stored(db, makeLikeID(call[2].from, call[2].to), "like", <<"true">>)

\* C19: when FollowUser(a, b, true) and BlockUser(b, a, true) are the calls
\* made and both have returned, the store does not hold both the block of b
\* on a and the follow of a on b.
C19_Pair(a, b) ==
    (/\ Len(call) = 2
     /\ \E i, j \in DOMAIN call :
           /\ call[i].op = "follow" /\ call[i].from = a /\ call[i].to = b /\ call[i].val
           /\ call[j].op = "block" /\ call[j].from = b /\ call[j].to = a /\ call[j].val
     /\ \A i \in DOMAIN call : call[i].pc = "done")
    => ~(IsBlocking(db, b, a) /\ IsFollowing(db, a, b))

C19_NoFollowUnderBlock == \A a \in Users : \A b \in Users \ {a} : C19_Pair(a, b)

\* C20: after calls of FollowUser and BlockUser made one after the other,
\* once every goroutine has ended, each user's Followings counter is its
\* initial value (0) plus the number of targets stored as followed by that
\* user.
C20_CountersMatchStore ==
    (/\ \A i \in DOMAIN call : call[i].pc = "done" /\ call[i].alone
     /\ Quiet)
    => \A u \in Users :
           users[u].Followings = Cardinality({t \in Targets : StoredFollow(db, u, t)})

\* C21: after FollowUser(a, b, .) calls made one after the other, once every
\* goroutine has ended, the followed state stored on b's follower node for a
\* equals the follow state stored on a's follow node for b.
C21_Pair(a, b) ==
    (/\ Len(call) >= 1
     /\ \A i \in DOMAIN call : /\ call[i].op = "follow" /\ call[i].from = a
                               /\ call[i].to = b
                               /\ call[i].pc = "done" /\ call[i].alone
     /\ Quiet)
    => (Stored(db, makeFollowedID(b, a), "followed", <<"true">>)
            <=> StoredFollow(db, a, b))

C21_BothSidesAgree == \A a \in Users : \A b \in Users \ {a} : C21_Pair(a, b)

\* C22: the migration never writes over a following root that is stored, and
\* every follow node inserted under the root stays reachable from it.
C22_Step(g) ==
    (bg[g].pc = "m_set" /\ bg'[g].pc # "m_set" /\ Existed(db, RootOf("follow")))
        => db'[RootOf("follow")] = db[RootOf("follow")]

C22_Reachable(d) ==
    \A k \in DOMAIN chainlog.order :
        Occurrences(Chain(d, RootOf("follow")), NodeID("follow", chainlog.order[k])) = 1

C22_MigrationKeepsHead ==
    [][C22_Reachable(db') /\ \A g \in DOMAIN bg : C22_Step(g)]_vars

(***************************************************************************)
(* Claims about GetFollowingList                                           *)
(***************************************************************************)
Reverse(s) == [i \in DOMAIN s |-> s[Len(s) + 1 - i]]
IDs(res) == [i \in DOMAIN res |-> res[i].ID]

WalkFirst ==
    IF walk.arg = Empty THEN db[RootOf(chainlog.kind)].NextID ELSE walk.arg

\* the parties a node's entries name
PartiesOf(a) ==
    IF a.Cmd = "follow"
    THEN {k \in DOMAIN a.Extras : Len(a.Extras[k]) = 2}
    ELSE {ExtraOf(a, "to")[1]}

\* C10: for a chain A -> B -> C whose B cannot be loaded, a walk starting at
\* A returns the entries of A and nothing else, returns B's id as the cursor,
\* and loads no node but A.
C10_BrokenChain ==
    (/\ walk.pc = "done" /\ walk.stop \notin {"budget", "noroot"}
     /\ walk.n >= 1
     /\ Existed(db, WalkFirst)
     /\ HasPrefixU(db[WalkFirst].NextID)
     /\ ~Existed(db, db[WalkFirst].NextID))
    => /\ walk.cursor = db[WalkFirst].NextID
       /\ walk.visited = <<WalkFirst>>
       /\ {walk.res[i].ID : i \in DOMAIN walk.res} = PartiesOf(db[WalkFirst])
       /\ Len(walk.res) = Cardinality(PartiesOf(db[WalkFirst]))
       /\ walk.stop \in {"load", "count"}

\* C10 witness: C, B, A inserted in this order, B deleted, C still stored; the
\* walk loaded A, failed to load B and returned B's id
C10_Witness ==
    \E i, j, k \in DOMAIN chainlog.order :
        LET A == NodeID(chainlog.kind, chainlog.order[k])
            B == NodeID(chainlog.kind, chainlog.order[j])
            C == NodeID(chainlog.kind, chainlog.order[i])
        IN /\ i < j /\ j < k
           /\ walk.pc = "done" /\ walk.stop = "load"
           /\ walk.visited = <<A>>
           /\ walk.cursor = B
           /\ Len(walk.res) = 1
           /\ ~Existed(db, B)
           /\ Existed(db, C)

\* C11: GetFollowingList never returns more than n entries, whatever the
\* chain holds, follow nodes with several Extras keys included.
C11_AtMostN == walk.pc = "done" => Len(walk.res) <= walk.n

\* C12: the cursor GetFollowingList returns is empty whenever the walk ended
\* with a cursor that is no chain member's key (the tail's empty NextID, or a
\* key without the "u/" prefix).
C12_CursorEmptyAtEnd ==
    (walk.pc = "done" /\ ~HasPrefixU(walk.cursor)) => walk.cursor = Empty

\* C13: a walk that has started returns, on every chain, cyclic ones whose
\* nodes add no entries included, once the clock moves on.
C13_WalkTerminates == (walk.pc = "loop") ~> (walk.pc = "done")

\* C13 witness: a walk that the budget ended after it had loaded more nodes
\* than the chain holds, none of which added an entry
C13_Witness ==
    /\ walk.pc = "done" /\ walk.stop = "budget"
    /\ walk.res = <<>>
    /\ Len(walk.visited) > MaxLegacy
    /\ Existed(db, walk.cursor)

\* C17: the entries GetFollowingList returns are in order of non-increasing
\* time, whatever order the walk met them in.
C17_SortedByTime ==
    walk.pc = "done" =>
        \A i, j \in DOMAIN walk.res : i < j => walk.res[i].Time >= walk.res[j].Time

\* C17 witness: the entry returned first belongs to a node inserted before,
\* and so met after, the node of the entry returned second
C17_Witness ==
    /\ walk.pc = "done" /\ walk.arg = Empty
    /\ Len(walk.res) >= 2
    /\ walk.res[1].Time > walk.res[2].Time
    /\ \E i, j \in DOMAIN chainlog.order :
           /\ i < j
           /\ chainlog.order[i] = walk.res[1].ID
           /\ chainlog.order[j] = walk.res[2].ID

(***************************************************************************)
(* Claims about the token bucket                                           *)
(***************************************************************************)

\* C7: Consume(0) returns true in every reachable bucket state and under any
\* interleaving with other Consume calls on the same bucket: no call of
\* Consume with n = 0 ever returns false.
C7_ConsumeZeroSucceeds == ~(ret.value = "false" /\ ret.n = 0)

\* C8: a Consume(n) with speed > 0 whose n is larger than the refilled
\* capacity c computes the wait (n - c) / speed, in milliseconds. If the wait
\* exceeds timeout the call returns false at once, leaves capacity at c (n is
\* not deducted) and leaves lastConsume alone. Otherwise it sets capacity to
\* 0 and lastConsume to now + wait, the caller sleeps until now + wait, and
\* only then returns true.
C8_DeficitStep(p) ==
    LET n == caller[p].n
        clock == now * TickMs
        c == Refill(capacity, clock, lastConsume)
        wait == ((n - c) * MsPerSec) \div speed
    IN (caller[p].pc = "locked" /\ caller'[p].pc # "locked" /\ n > c) =>
         IF wait > timeout
         THEN /\ ret' = [caller |-> p, n |-> n, value |-> "false", slept |-> FALSE]
              /\ caller'[p].pc = "idle"
              /\ capacity' = c
              /\ lastConsume' = lastConsume
         ELSE /\ capacity' = 0
              /\ lastConsume' = clock + wait
              /\ caller'[p].pc = "sleeping"
              /\ caller'[p].wakeAt = clock + wait
              /\ ret' = ret

C8_WakeStep(p) ==
    (caller[p].pc = "sleeping" /\ caller'[p].pc # "sleeping") =>
        /\ now * TickMs >= caller[p].wakeAt
        /\ ret' = [caller |-> p, n |-> caller[p].n, value |-> "true", slept |-> TRUE]
        /\ capacity' = capacity
        /\ lastConsume' = lastConsume

C8_DeficitPath == [][\A p \in Callers : C8_DeficitStep(p) /\ C8_WakeStep(p)]_vars

\* C8 witness: a call that did not fit has slept its wait and returned true
C8_Witness == ret.slept /\ ret.value = "true" /\ ret.n > 0 /\ now > 0

\* C15: capacity is never negative and never above maxCapacity; a Consume
\* whose clock reading is earlier than lastConsume adds no refill and takes
\* nothing off capacity.
C15_CapacityInRange == capacity >= 0 /\ capacity <= maxCapacity

\* C16: the mutex is held by a caller exactly while it does its bookkeeping:
\* never by a caller that sleeps, never by a caller that has returned.
C16_MutexOnlyForBookkeeping ==
    \A p \in Callers : (mu = p) <=> (caller[p].pc = "locked")

\* C16 witness: while one caller sleeps another has done its bookkeeping and
\* returned
C16_Witness ==
    \E p \in Callers :
        /\ caller[p].pc = "sleeping"
        /\ ret.caller \notin {0, p}
        /\ ret.n > 0
        /\ mu = 0

\* C18: with speed > 0 the sum of n over the calls that have returned true
\* by time T is at most maxCapacity + speed * T, T counted from the
\* construction of the bucket, with one token of allowance for the rounding
\* of milliseconds.
C18_RateBound ==
    speed > 0 =>
        granted * MsPerSec <= (maxCapacity + 1) * MsPerSec + speed * now * TickMs

=============================================================================
